---- MODULE Spec2Model ----
(***************************************************************************)
(* Inventory ledger of the PriscomSales backend: the inventory_master_log  *)
(* table (one balance row per item, warehouse and day), the stock          *)
(* movement log, the sales and purchase source tables with their history   *)
(* tables, and the request handlers of routes/inventory.py, routes/b2b.py, *)
(* routes/sales.py and routes/restock.py that read and write them.         *)
(* One tenant is modelled: every query of the source filters on user_id.   *)
(***************************************************************************)
EXTENDS Integers, Sequences, FiniteSets, TLC

\* ------------------------------------------------------------------------
\* Bounds of the model
\* ------------------------------------------------------------------------
MaxDate == 2
MaxQty == 2
MaxRows == 3
MaxMoves == 2
MaxSales == 1
MaxPurch == 2
MaxCount == 4
MaxProforma == 1
MaxUpserts == 2
MaxAdjusts == 2
MaxLogOps == 2

Dates == 1..MaxDate
Qtys == 1..MaxQty
Warehouses == {"W1", "W2"}
Roles == {"md", "employee"}

VARIABLES
  inv,        \* inventory_master_log: set of balance rows
  nextId,     \* next value of the table's serial primary key "id"
  nextItem,   \* next value the database generates for item_id on insert
  movements,  \* stock_movements: sequence of movement rows
  salesLog,   \* sales_master_log
  salesHist,  \* sales_master_history
  purchases,  \* goods_bought
  purchHist,  \* goods_bought_history
  nextSale,   \* next sale_id
  nextPurch,  \* next purchase_id
  today,      \* datetime.utcnow().date()
  last,       \* outcome of the last completed request
  procs       \* concurrent requests in flight (used by SpecConc only)

vars == <<inv, nextId, nextItem, movements, salesLog, salesHist, purchases,
          purchHist, nextSale, nextPurch, today, last, procs>>

\* ------------------------------------------------------------------------
\* Rows and queries
\* ------------------------------------------------------------------------
\* sid / pid are the sale_id / purchase_id columns of the balance row.
NoRow ==
  [id |-> 0, item |-> 0, name |-> "", wh |-> "", date |-> 0,
   open |-> 0, sup |-> 0, out |-> 0, ret |-> 0, sid |-> 0, pid |-> 0]

Row(id, item, name, wh, date, open, sup, out, ret) ==
  [id |-> id, item |-> item, name |-> name, wh |-> wh, date |-> date,
   open |-> open, sup |-> sup, out |-> out, ret |-> ret, sid |-> 0, pid |-> 0]

\* closing_balance is a column the database computes from the counters.
Closing(r) ==
  r.open + r.sup + r.ret - r.out

\* .order("log_date", desc=True).limit(1): any row of the greatest date.
Latest(S) ==
  {r \in S : \A s \in S : s.date <= r.date}

\* .order("item_id", desc=True).limit(1)
MaxItem(S) ==
  {r \in S : \A s \in S : s.item <= r.item}

\* data[0] if data else None
Pick(S) ==
  IF S = {} THEN {NoRow} ELSE S

Replace(rows, old, new) ==
  (rows \ {old}) \cup {new}

Outcome(op, ok, err, row, q, avail, date, verdict) ==
  [op |-> op, ok |-> ok, err |-> err, row |-> row, q |-> q, avail |-> avail,
   date |-> date, verdict |-> verdict]

\* a request that has not started: its position and the rows it has read
Idle ==
  [pc |-> "idle", kind |-> "", q |-> 0, date |-> 0, it |-> NoRow,
   ex |-> NoRow, prev |-> NoRow, ok |-> FALSE]

\* ------------------------------------------------------------------------
\* routes/inventory.py helpers
\* ------------------------------------------------------------------------
\* what _get_user_access_code can return for the caller: no code, or a code
StoredCodes == {"", "c1"}

MinNoteLen == 5

\* Optional[int] request fields: <<>> is None, <<v>> is the value v
OrZero(o) ==
  IF o = <<>> THEN 0 ELSE o[1]

\* a variant that lets any caller post for any date
AnyCallerAnyDate(selected, role, now) ==
  TRUE

\* _assert_md_or_today: TRUE when the call is allowed
_assert_md_or_today(selected, role, now) ==
  role = "md" \/ selected = now

\* _resolve_item by item_id: the rows .limit(1) can return
_resolve_item(rows, item) ==
  {r \in rows : r.item = item}

\* _get_existing_same_day: no warehouse filter, no ordering
_get_existing_same_day(rows, item, d) ==
  {r \in rows : r.item = item /\ r.date = d}

\* _previous_closing_for: the values it can return
_previous_closing_for(rows, item, d) ==
  LET before == {r \in rows : r.item = item /\ r.date < d}
  IN  IF before = {} THEN {0} ELSE {Closing(r) : r \in Latest(before)}

\* ------------------------------------------------------------------------
\* routes/b2b.py helpers
\* ------------------------------------------------------------------------
_get_item_stock(rows, wh, item, d) ==
  LET atOrBefore == {r \in rows : r.wh = wh /\ r.item = item /\ r.date <= d}
      overall == {r \in rows : r.wh = wh /\ r.item = item}
  IN  IF atOrBefore # {} THEN Latest(atOrBefore) ELSE Pick(Latest(overall))

_validate_sufficient_stock(it, q) ==
  IF it = NoRow THEN "not_found"
  ELSE IF it.open = 0 THEN "not_restocked"
  ELSE IF Closing(it) < q THEN "insufficient"
  ELSE "ok"

\* rows the exact-date lookup of _update_inventory_stock_out can return
StockOutExisting(rows, it, d) ==
  {r \in rows : r.wh = it.wh /\ r.item = it.item /\ r.date = d}

\* rows its previous-day lookup can return
StockOutPrev(rows, it, d) ==
  Latest({r \in rows : r.wh = it.wh /\ r.item = it.item /\ r.date < d})

\* a variant that overwrites the stock_out of the day's row
StockOutOverwrites(rows, nid, it, q, d, ex, prev) ==
  IF ex # NoRow
  THEN Replace(rows, CHOOSE r \in rows : r.id = ex.id,
               [(CHOOSE r \in rows : r.id = ex.id) EXCEPT !.out = q])
  ELSE rows \cup
       {Row(nid, it.item, it.name, it.wh, d,
            IF prev # NoRow THEN Closing(prev) ELSE Closing(it), 0, q, 0)}

\* the write of _update_inventory_stock_out, given what its reads returned
_update_inventory_stock_out(rows, nid, it, q, d, ex, prev) ==
  IF ex # NoRow
  THEN Replace(rows, CHOOSE r \in rows : r.id = ex.id,
               [(CHOOSE r \in rows : r.id = ex.id) EXCEPT !.out = ex.out + q])
  ELSE rows \cup
       {Row(nid, it.item, it.name, it.wh, d,
            IF prev # NoRow THEN Closing(prev) ELSE Closing(it), 0, q, 0)}

_log_stock_movement(kind, src, dst, item, destItem, q, note) ==
  [kind |-> kind, src |-> src, dst |-> dst, item |-> item,
   destItem |-> destItem, q |-> q, note |-> note]

\* a variant that writes the new record over the latest one
InsertOverLatest(log, rec) ==
  IF log = <<>> THEN <<rec>> ELSE [log EXCEPT ![Len(log)] = rec]

\* _log_stock_movement: the insert into stock_movements, the only write the
\* code makes to that table
InsertMovement(log, rec) ==
  Append(log, rec)

\* a variant that never mints an item id for a destination name that is new
DestItemIdNeverMints(rows, srcItem, destName, srcName) ==
  LET byName == Latest({r \in rows : r.name = destName})
  IN  IF byName # {} THEN {r.item : r \in byName} ELSE {srcItem}

\* _update_inventory_stock_in: the destination item id it resolves
DestItemId(rows, srcItem, destName, srcName) ==
  LET byName == Latest({r \in rows : r.name = destName})
  IN  IF byName # {} THEN {r.item : r \in byName}
      ELSE IF destName # srcName
           THEN {IF rows = {} THEN srcItem + 1
                 ELSE (CHOOSE r \in MaxItem(rows) : TRUE).item + 1}
           ELSE {srcItem}

StockInExact(rows, wh, destItem, d) ==
  {r \in rows : r.wh = wh /\ r.item = destItem /\ r.date = d}

StockInPrev(rows, wh, destItem, d) ==
  Latest({r \in rows : r.wh = wh /\ r.item = destItem /\ r.date < d})

\* a variant that overwrites the supplied quantity of the day's row
StockInOverwrites(rows, nid, wh, destItem, destName, q, d, exact, prev) ==
  IF exact # NoRow
  THEN Replace(rows, CHOOSE r \in rows : r.id = exact.id,
               [(CHOOSE r \in rows : r.id = exact.id) EXCEPT !.sup = q])
  ELSE rows \cup
       {Row(nid, destItem, destName, wh, d,
            IF prev # NoRow THEN Closing(prev) ELSE 0, q, 0, 0)}

\* the write of _update_inventory_stock_in, given what its reads returned
_update_inventory_stock_in(rows, nid, wh, destItem, destName, q, d, exact, prev) ==
  IF exact # NoRow
  THEN Replace(rows, CHOOSE r \in rows : r.id = exact.id,
               [(CHOOSE r \in rows : r.id = exact.id) EXCEPT !.sup = exact.sup + q])
  ELSE rows \cup
       {Row(nid, destItem, destName, wh, d,
            IF prev # NoRow THEN Closing(prev) ELSE 0, q, 0, 0)}

\* ------------------------------------------------------------------------
\* Initial state: an empty database
\* ------------------------------------------------------------------------
NoOutcome ==
  Outcome("none", FALSE, "", 0, 0, 0, 0, "")

Init ==
  /\ inv = {}
  /\ nextId = 1
  /\ nextItem = 1
  /\ movements = <<>>
  /\ salesLog = {}
  /\ salesHist = {}
  /\ purchases = {}
  /\ purchHist = {}
  /\ nextSale = 1
  /\ nextPurch = 1
  /\ today = 1
  /\ last = NoOutcome
  /\ procs = <<>>

\* the size caps that keep the model finite
Bounded(rows) ==
  /\ Cardinality(rows) <= MaxRows
  /\ \A r \in rows : r.sup <= MaxCount /\ r.ret <= MaxCount /\ r.out <= MaxCount

\* the caps of the upsert, the manual adjustment and the return: one more
\* row, and counters that negative deltas cannot take below -MaxQty
UpsertBounded(rows) ==
  /\ Cardinality(rows) <= MaxRows + 1
  /\ \A r \in rows : /\ r.sup <= MaxCount /\ r.ret <= MaxCount /\ r.out <= MaxCount
                      /\ r.sup >= -MaxQty /\ r.ret >= -MaxQty /\ r.out >= -MaxQty

\* ------------------------------------------------------------------------
\* routes/restock.py: create_new_item
\* ------------------------------------------------------------------------
NewItem(name, wh, q, d) ==
  /\ nextPurch <= MaxPurch
  /\ IF \E r \in inv : r.name = name
     THEN /\ last' = Outcome("NewItem", FALSE, "conflict", 0, q, 0, d, "")
          /\ UNCHANGED <<inv, nextId, nextItem, purchHist, nextPurch>>
     ELSE /\ inv' = inv \cup {Row(nextId, nextItem, name, wh, d, 0, q, 0, 0)}
          /\ Bounded(inv')
          /\ nextId' = nextId + 1
          /\ nextItem' = nextItem + 1
          /\ purchHist' = purchHist \cup
                 {[pid |-> nextPurch, item |-> nextItem, q |-> q, date |-> d]}
          /\ nextPurch' = nextPurch + 1
          /\ last' = Outcome("NewItem", TRUE, "", nextId, q, 0, d, "")
  /\ UNCHANGED <<movements, salesLog, salesHist, purchases, nextSale, today, procs>>
\* a variant that validates nothing
NoValidation(kind, q, noteLen) ==
  TRUE

\* the request models of b2b.py: quantity is Field(..., gt=0), and the
\* notes of a StockoutRequest are Field(..., min_length=5)
ValidMovement(kind, q, noteLen) ==
  /\ q > 0
  /\ kind = "WriteOff" => noteLen >= MinNoteLen

\* ------------------------------------------------------------------------
\* routes/b2b.py: customer_sale and stockout_writeoff
\* ------------------------------------------------------------------------
StockOutOp(kind, wh, item, q, d, note, reason) ==
  /\ Len(movements) < MaxMoves
  /\ IF ~ValidMovement(kind, q, Len(reason))
     THEN /\ last' = (Outcome(kind, FALSE, "invalid", 0, q, 0, d, "")
                       @@ [reason |-> reason])
          /\ UNCHANGED <<inv, nextId, movements>>
     ELSE
     \E it \in _get_item_stock(inv, wh, item, d) :
       LET v == _validate_sufficient_stock(it, q)
       IN  IF v # "ok"
           THEN /\ last' = (Outcome(kind, FALSE, v, 0, q, Closing(it), d, v)
                                @@ [reason |-> reason])
                /\ UNCHANGED <<inv, nextId, movements>>
           ELSE \E ex \in Pick(StockOutExisting(inv, it, d)),
                   prev \in Pick(StockOutPrev(inv, it, d)) :
                  /\ inv' = _update_inventory_stock_out(inv, nextId, it, q, d, ex, prev)
                  /\ Bounded(inv')
                  /\ nextId' = IF ex # NoRow THEN nextId ELSE nextId + 1
                  /\ movements' = InsertMovement(movements,
                        _log_stock_movement(kind, wh, "", item, item, q, note))
                  /\ last' = (Outcome(kind, TRUE, "",
                                      IF ex # NoRow THEN ex.id ELSE nextId,
                                      q, Closing(it), d, "ok")
                                @@ [reason |-> reason])
  /\ UNCHANGED <<nextItem, salesLog, salesHist, purchases, purchHist, nextSale,
                 nextPurch, today, procs>>

customer_sale(wh, item, q, d) ==
  StockOutOp("Issue", wh, item, q, d, <<>>, <<>>)

\* f"WRITE-OFF: {request.notes}", texts being sequences of characters
WriteOffMarker ==
  <<"W", "R", "I", "T", "E", "-", "O", "F", "F", ":", " ">>

\* a variant that logs the reason without the marker
WriteOffUnmarked(wh, item, q, d, reason) ==
  StockOutOp("WriteOff", wh, item, q, d, reason, reason)

\* reason is the text the request gives in notes
stockout_writeoff(wh, item, q, d, reason) ==
  StockOutOp("WriteOff", wh, item, q, d, WriteOffMarker \o reason, reason)

AdvanceDay ==
  /\ today < MaxDate
  /\ today' = today + 1
  /\ last' = NoOutcome
  /\ UNCHANGED <<inv, nextId, nextItem, movements, salesLog, salesHist,
                 purchases, purchHist, nextSale, nextPurch, procs>>

\* ------------------------------------------------------------------------
\* routes/b2b.py: warehouse_transfer.  fault names the database call that
\* raises: "none", "dest" (the destination write) or "log" (the movement
\* insert); the handler has no transaction and no compensation.
\* ------------------------------------------------------------------------
Faults == {"none", "dest", "log"}

\* a variant that accepts any pair of warehouses
AnyWarehouses(src, dst) ==
  TRUE

\* WarehouseTransferRequest.validate_different_warehouses
validate_different_warehouses(src, dst) ==
  dst # src

warehouse_transfer(src, dst, item, name, nameTo, q, d, fault) ==
  LET req == [src |-> src, dst |-> dst, item |-> item, name |-> name,
              nameTo |-> nameTo]
  IN
  /\ Len(movements) < MaxMoves
  /\ IF ~ValidMovement("Transfer", q, 0)
     THEN /\ last' = (Outcome("Transfer", FALSE, "invalid", 0, q, 0, d, "") @@ req)
          /\ UNCHANGED <<inv, nextId, movements>>
     ELSE IF ~validate_different_warehouses(src, dst)
     THEN /\ last' = (Outcome("Transfer", FALSE, "same_warehouse", 0, q, 0, d, "") @@ req)
          /\ UNCHANGED <<inv, nextId, movements>>
     ELSE \E it \in _get_item_stock(inv, src, item, d) :
       LET v == _validate_sufficient_stock(it, q)
           destName == IF nameTo # "" THEN nameTo ELSE name
       IN  IF v # "ok"
           THEN /\ last' = (Outcome("Transfer", FALSE, v, 0, q, Closing(it), d, v) @@ req)
                /\ UNCHANGED <<inv, nextId, movements>>
           ELSE \E ex \in Pick(StockOutExisting(inv, it, d)),
                   prev \in Pick(StockOutPrev(inv, it, d)) :
                LET afterOut == _update_inventory_stock_out(inv, nextId, it, q, d, ex, prev)
                    nid == IF ex # NoRow THEN nextId ELSE nextId + 1
                    outRow == IF ex # NoRow THEN ex.id ELSE nextId
                IN  IF fault = "dest"
                    THEN /\ inv' = afterOut
                         /\ Bounded(inv')
                         /\ nextId' = nid
                         /\ movements' = movements
                         /\ last' = (Outcome("Transfer", FALSE, "dest_failed", outRow,
                                            q, Closing(it), d, "ok") @@ req)
                    ELSE \E destItem \in DestItemId(afterOut, item, destName, name) :
                         \E exact \in Pick(StockInExact(afterOut, dst, destItem, d)),
                            dprev \in Pick(StockInPrev(afterOut, dst, destItem, d)) :
                           /\ inv' = _update_inventory_stock_in(afterOut, nid, dst,
                                        destItem, destName, q, d, exact, dprev)
                           /\ Bounded(inv')
                           /\ nextId' = IF exact # NoRow THEN nid ELSE nid + 1
                           /\ IF fault = "log"
                              THEN /\ movements' = movements
                                   /\ last' = (Outcome("Transfer", FALSE, "log_failed",
                                                      outRow, q, Closing(it), d, "ok") @@ req)
                              ELSE /\ movements' = InsertMovement(movements,
                                          _log_stock_movement("Transfer", src, dst, item,
                                                              destItem, q, <<>>))
                                   /\ last' = (Outcome("Transfer", TRUE, "", outRow, q,
                                                      Closing(it), d, "ok") @@ req)
  /\ UNCHANGED <<nextItem, salesLog, salesHist, purchases, purchHist, nextSale,
                 nextPurch, today, procs>>

\* ------------------------------------------------------------------------
\* routes/inventory.py: manual_inventory_adjustment
\* ------------------------------------------------------------------------
\* the manual adjustments and returns made since the ledger was last
\* written otherwise
AdjustsDone ==
  IF last.op \in {"ManualAdjust", "ReturnItem"} THEN last.n ELSE 0

manual_inventory_adjustment(item, sup, out, ret, d, role, stored) ==
  LET req == [item |-> item, sup |-> sup, out |-> out, ret |-> ret, role |-> role,
              stored |-> stored, n |-> AdjustsDone + 1]
  IN
  /\ AdjustsDone < MaxAdjusts
  /\ IF role # "md" /\ stored = ""
     THEN /\ last' = (Outcome("ManualAdjust", FALSE, "forbidden", 0, 0, 0, d, "") @@ req)
          /\ UNCHANGED <<inv, nextId>>
     ELSE \E existing \in Pick(_get_existing_same_day(inv, item, d)) :
          IF existing = NoRow
          THEN \E invItem \in Pick(Latest({r \in inv : r.item = item})) :
               IF invItem = NoRow
               THEN /\ last' = (Outcome("ManualAdjust", FALSE, "not_found", 0, 0, 0, d, "") @@ req)
                    /\ UNCHANGED <<inv, nextId>>
               ELSE \E open \in _previous_closing_for(inv, item, d) :
                    /\ inv' = inv \cup
                         {Row(nextId, item, invItem.name, invItem.wh, d, open,
                              OrZero(sup), OrZero(out), OrZero(ret))}
                    /\ UpsertBounded(inv')
                    /\ nextId' = nextId + 1
                    /\ last' = (Outcome("ManualAdjust", TRUE, "", nextId, 0, 0, d, "") @@ req)
          ELSE /\ inv' = {IF r.item = item /\ r.date = d
                          THEN [r EXCEPT !.sup = IF sup = <<>> THEN @ ELSE sup[1],
                                         !.out = IF out = <<>> THEN @ ELSE out[1],
                                         !.ret = IF ret = <<>> THEN @ ELSE ret[1]]
                          ELSE r : r \in inv}
               /\ nextId' = nextId
               /\ last' = (Outcome("ManualAdjust", TRUE, "", existing.id, 0, 0, d, "") @@ req)
  /\ UNCHANGED <<nextItem, movements, salesLog, salesHist, purchases, purchHist,
                 nextSale, nextPurch, today, procs>>

\* ------------------------------------------------------------------------
\* routes/inventory.py: return_item_to_inventory
\* ------------------------------------------------------------------------
\* a variant that only asks for a code to be presented
CodePresented(code, stored) ==
  code # ""

\* the access-code check of return_item_to_inventory
ValidAccessCode(code, stored) ==
  ~(code = "" \/ code # stored)

return_item_to_inventory(item, q, d, code, role, stored) ==
  LET req == [item |-> item, code |-> code, role |-> role, stored |-> stored,
              n |-> AdjustsDone + 1]
  IN
  /\ AdjustsDone < MaxAdjusts
  /\ IF ~_assert_md_or_today(d, role, today)
     THEN /\ last' = (Outcome("ReturnItem", FALSE, "forbidden_date", 0, q, 0, d, "") @@ req)
          /\ UNCHANGED <<inv, nextId>>
     ELSE IF ~ValidAccessCode(code, stored)
     THEN /\ last' = (Outcome("ReturnItem", FALSE, "bad_code", 0, q, 0, d, "") @@ req)
          /\ UNCHANGED <<inv, nextId>>
     ELSE \E invItem \in Pick(_resolve_item(inv, item)) :
          IF invItem = NoRow
          THEN /\ last' = (Outcome("ReturnItem", FALSE, "not_found", 0, q, 0, d, "") @@ req)
               /\ UNCHANGED <<inv, nextId>>
          ELSE \E sameDay \in Pick(_get_existing_same_day(inv, item, d)) :
               IF sameDay # NoRow
               THEN /\ inv' = {IF r.item = item /\ r.date = d
                               THEN [r EXCEPT !.ret = sameDay.ret + q]
                               ELSE r : r \in inv}
                    /\ UpsertBounded(inv')
                    /\ nextId' = nextId
                    /\ last' = (Outcome("ReturnItem", TRUE, "", sameDay.id, q, 0, d, "") @@ req)
               ELSE /\ inv' = inv \cup
                         {Row(nextId, item, invItem.name, invItem.wh, d, 0, 0, 0, q)}
                    /\ UpsertBounded(inv')
                    /\ nextId' = nextId + 1
                    /\ last' = (Outcome("ReturnItem", TRUE, "", nextId, q, 0, d, "") @@ req)
  /\ UNCHANGED <<nextItem, movements, salesLog, salesHist, purchases, purchHist,
                 nextSale, nextPurch, today, procs>>

\* ------------------------------------------------------------------------
\* routes/sales.py: the sales guard, the stock_out adjustment, create_sale_batch
\* ------------------------------------------------------------------------
\* available_stock as _check_stock_availability reads it
AvailableStock(rows, item, now) ==
  LET todays == {r \in rows : r.item = item /\ r.date = now}
      all == {r \in rows : r.item = item}
  IN  IF todays # {} THEN {Closing(r) : r \in todays}
      ELSE IF all # {} THEN {Closing(r) : r \in Latest(all)}
      ELSE {0}

\* the verdict of _check_stock_availability on an available stock;
\* errored is TRUE when its query raised and the except branch let the sale pass
_check_stock_availability(item, avail, q, errored) ==
  IF item = 0 THEN "skipped"
  ELSE IF errored THEN "errored"
  ELSE IF avail <= 0 THEN "zero_stock"
  ELSE IF avail < q THEN "insufficient"
  ELSE "ok"

Passes(verdict) ==
  verdict \in {"ok", "skipped", "errored"}

Max0(x) ==
  IF x > 0 THEN x ELSE 0

\* _adjust_inventory_stock_out: every row of the item gets the new value
_adjust_inventory_stock_out(rows, item, delta) ==
  IF item = 0 THEN {rows}
  ELSE LET mine == {r \in rows : r.item = item}
           currents == IF mine = {} THEN {0} ELSE {r.out : r \in mine}
       IN  {{IF r.item = item THEN [r EXCEPT !.out = Max0(cur + delta)] ELSE r
             : r \in rows} : cur \in currents}

Sale(sid, item, q, d, pf) ==
  [sid |-> sid, item |-> item, q |-> q, date |-> d, pf |-> pf]

create_sale_batch(item, q, d, role, errored) ==
  /\ nextSale <= MaxSales
  /\ IF _resolve_item(inv, item) = {}
     THEN /\ last' = Outcome("Sale", FALSE, "not_found", 0, q, 0, d, "")
          /\ UNCHANGED <<inv, salesLog, nextSale>>
     ELSE \E avail \in AvailableStock(inv, item, today) :
          LET v == _check_stock_availability(item, avail, q, errored)
          IN  IF ~Passes(v)
              THEN /\ last' = Outcome("Sale", FALSE, v, 0, q, avail, d, v)
                   /\ UNCHANGED <<inv, salesLog, nextSale>>
              ELSE IF d < today /\ role # "md"
              THEN /\ last' = Outcome("Sale", FALSE, "backdated", 0, q, avail, d, v)
                   /\ UNCHANGED <<inv, salesLog, nextSale>>
              ELSE /\ salesLog' = salesLog \cup {Sale(nextSale, item, q, d, 0)}
                   /\ nextSale' = nextSale + 1
                   /\ inv' \in _adjust_inventory_stock_out(inv, item, q)
                   /\ Bounded(inv')
                   /\ last' = Outcome("Sale", TRUE, "", 0, q, avail, d, v)
  /\ UNCHANGED <<nextId, nextItem, movements, salesHist, purchases, purchHist,
                 nextPurch, today, procs>>

\* create_sale_batch with two lines of the same item, of quantities q1 and
\* q2: the validation loop over the lines, then per line the insert of the
\* sale row and the stock_out adjustment.  The availability queries are
\* taken not to raise.
create_sale_batch_lines(item, q1, q2, d, role) ==
  LET req == [item |-> item, q1 |-> q1, q2 |-> q2]
  IN
  /\ nextSale <= MaxSales
  /\ IF _resolve_item(inv, item) = {}
     THEN /\ last' = (Outcome("SaleBatch", FALSE, "not_found", 0, q1 + q2, 0, d, "") @@ req)
          /\ UNCHANGED <<inv, salesLog, nextSale>>
     ELSE \E a1 \in AvailableStock(inv, item, today),
             a2 \in AvailableStock(inv, item, today) :
          LET v1 == _check_stock_availability(item, a1, q1, FALSE)
              v2 == _check_stock_availability(item, a2, q2, FALSE)
          IN  IF ~Passes(v1)
              THEN /\ last' = (Outcome("SaleBatch", FALSE, v1, 0, q1 + q2, a1, d, v1) @@ req)
                   /\ UNCHANGED <<inv, salesLog, nextSale>>
              ELSE IF ~Passes(v2)
              THEN /\ last' = (Outcome("SaleBatch", FALSE, v2, 0, q1 + q2, a2, d, v2) @@ req)
                   /\ UNCHANGED <<inv, salesLog, nextSale>>
              ELSE IF d < today /\ role # "md"
              THEN /\ last' = (Outcome("SaleBatch", FALSE, "backdated", 0, q1 + q2, a1, d, v1)
                               @@ req)
                   /\ UNCHANGED <<inv, salesLog, nextSale>>
              ELSE /\ salesLog' = salesLog \cup {Sale(nextSale, item, q1, d, 0),
                                                  Sale(nextSale + 1, item, q2, d, 0)}
                   /\ nextSale' = nextSale + 2
                   /\ \E mid \in _adjust_inventory_stock_out(inv, item, q1) :
                        inv' \in _adjust_inventory_stock_out(mid, item, q2)
                   /\ Bounded(inv')
                   /\ last' = (Outcome("SaleBatch", TRUE, "", 0, q1 + q2, a1, d, v1) @@ req)
  /\ UNCHANGED <<nextId, nextItem, movements, salesHist, purchases, purchHist,
                 nextPurch, today, procs>>

\* ------------------------------------------------------------------------
\* routes/restock.py: batch_restock (one line)
\* ------------------------------------------------------------------------
_adjust_inventory_supply(rows, item, delta) ==
  LET mine == {r \in rows : r.item = item}
      currents == IF mine = {} THEN {0} ELSE {r.sup : r \in mine}
  IN  {{IF r.item = item THEN [r EXCEPT !.sup = Max0(cur + delta)] ELSE r
        : r \in rows} : cur \in currents}

batch_restock(item, wh, q, d) ==
  /\ nextPurch <= MaxPurch
  /\ IF {r \in inv : r.item = item /\ r.wh = wh} = {}
     THEN /\ last' = Outcome("Restock", FALSE, "not_found", 0, q, 0, d, "")
          /\ UNCHANGED <<inv, purchases, nextPurch>>
     ELSE /\ purchases' = purchases \cup
                 {[pid |-> nextPurch, item |-> item, q |-> q, date |-> d]}
          /\ nextPurch' = nextPurch + 1
          /\ inv' \in _adjust_inventory_supply(inv, item, q)
          /\ Bounded(inv')
          /\ last' = Outcome("Restock", TRUE, "", 0, q, 0, d, "")
  /\ UNCHANGED <<nextId, nextItem, movements, salesLog, salesHist, purchHist,
                 nextSale, today, procs>>

\* ------------------------------------------------------------------------
\* routes/sales.py: _update_inventory_for_sale and convert_proforma (one line)
\* wh = "" stands for a proforma line without warehouse_name.
\* ------------------------------------------------------------------------
ForSaleRows(rows, item, d, wh) ==
  {r \in rows : r.item = item /\ r.date = d /\ (wh = "" \/ r.wh = wh)}

\* the opening balance of the row _update_inventory_for_sale creates
ForSaleOpening(rows, item, now, wh) ==
  LET yesterday == ForSaleRows(rows, item, now - 1, wh)
      latest == Latest({r \in rows : r.item = item /\ (wh = "" \/ r.wh = wh)})
  IN  IF yesterday # {} THEN {Closing(r) : r \in yesterday}
      ELSE IF latest # {} THEN {Closing(r) : r \in latest}
      ELSE {0}

\* The possible results [rows, nid, action].  The update of an existing row
\* filters on a column "inventory_date" that no other query of the source
\* uses: either the database rejects it (action "failed", swallowed by the
\* except branch) or it matches the day's rows of the item.
_update_inventory_for_sale(rows, nid, item, q, now, wh) ==
  IF item = 0 THEN {[rows |-> rows, nid |-> nid, action |-> "skipped"]}
  ELSE LET existing == ForSaleRows(rows, item, now, wh)
       IN  IF existing # {}
           THEN {[rows |-> rows, nid |-> nid, action |-> "failed"]} \cup
                {[rows |-> {IF r.item = item /\ r.date = now
                            THEN [r EXCEPT !.out = e.out + q] ELSE r : r \in rows},
                  nid |-> nid, action |-> "updated"] : e \in existing}
           ELSE {[rows |-> rows \cup {Row(nid, item, "", wh, now, open, 0, q, 0)},
                  nid |-> nid + 1, action |-> "created"]
                 : open \in ForSaleOpening(rows, item, now, wh)}

convert_proforma(pf, item, q, d, wh) ==
  /\ nextSale <= MaxSales + MaxProforma
  /\ IF \E x \in salesLog : x.pf = pf
     THEN /\ last' = (Outcome("Proforma", FALSE, "already_converted", 0, q, 0, d, "")
                   @@ [pf |-> pf])
          /\ UNCHANGED <<inv, nextId, salesLog, nextSale>>
     ELSE \E res \in _update_inventory_for_sale(inv, nextId, item, q, today, wh) :
          /\ salesLog' = salesLog \cup {Sale(nextSale, item, q, d, pf)}
          /\ nextSale' = nextSale + 1
          /\ inv' = res.rows
          /\ Bounded(inv')
          /\ nextId' = res.nid
          /\ last' = (Outcome("Proforma", TRUE, res.action, 0, q, 0, d, "")
                       @@ [pf |-> pf])
  /\ UNCHANGED <<nextItem, movements, salesHist, purchases, purchHist,
                 nextPurch, today, procs>>

\* ------------------------------------------------------------------------
\* routes/inventory.py: _upsert_inventory_daily, the archive moves and
\* update_inventory_balances
\* ------------------------------------------------------------------------
\* a variant that returns the closing balance of the unclamped stock_out
UpsertCountersUnclampedClosing(existing, prevClosing, din, dout, dret) ==
  LET open == IF existing # NoRow THEN existing.open ELSE prevClosing
      sup == (IF existing # NoRow THEN existing.sup ELSE 0) + din
      out0 == (IF existing # NoRow THEN existing.out ELSE 0) + dout
      ret == (IF existing # NoRow THEN existing.ret ELSE 0) + dret
      total == open + sup + ret
      out == IF total <= 0 /\ out0 > 0 THEN 0 ELSE out0
  IN  [open |-> open, sup |-> sup, out |-> out, ret |-> ret,
       closing |-> total - out0]

\* the counters _upsert_inventory_daily computes from what its reads
\* returned, and the closing_balance of the row it returns
UpsertCounters(existing, prevClosing, din, dout, dret) ==
  LET open == IF existing # NoRow THEN existing.open ELSE prevClosing
      sup == (IF existing # NoRow THEN existing.sup ELSE 0) + din
      out0 == (IF existing # NoRow THEN existing.out ELSE 0) + dout
      ret == (IF existing # NoRow THEN existing.ret ELSE 0) + dret
      total == open + sup + ret
      out == IF total <= 0 /\ out0 > 0 THEN 0 ELSE out0
  IN  [open |-> open, sup |-> sup, out |-> out, ret |-> ret,
       closing |-> total - out]

\* the write of _upsert_inventory_daily, given what its reads returned
_upsert_inventory_daily(rows, nid, itemRow, d, din, dout, dret, existing, prevClosing) ==
  LET c == UpsertCounters(existing, prevClosing, din, dout, dret)
  IN  IF existing # NoRow
      THEN {IF r.item = itemRow.item /\ r.date = d
            THEN [r EXCEPT !.name = itemRow.name, !.wh = itemRow.wh,
                           !.open = c.open, !.sup = c.sup, !.out = c.out,
                           !.ret = c.ret]
            ELSE r : r \in rows}
      ELSE rows \cup {Row(nid, itemRow.item, itemRow.name, itemRow.wh, d,
                          c.open, c.sup, c.out, c.ret)}

\* the passes of the loop made since the ledger was last written otherwise
UpsertsDone ==
  IF last.op = "Upsert" THEN last.n ELSE 0

\* One pass of the loop of update_inventory_balances over deltas.items():
\* _resolve_item by item_id, then _upsert_inventory_daily.  last records the
\* call: its inputs, the rows its reads returned and the row it returns.
Upsert(item, d, din, dout, dret) ==
  /\ UpsertsDone < MaxUpserts
  /\ IF _resolve_item(inv, item) = {}
     THEN /\ last' = Outcome("Upsert", FALSE, "not_found", 0, dout, 0, d, "")
                       @@ [item |-> item, wh |-> "", din |-> din, dret |-> dret,
                           existing |-> NoRow, prev |-> 0,
                           n |-> UpsertsDone + 1]
          /\ UNCHANGED <<inv, nextId>>
     ELSE \E itemRow \in _resolve_item(inv, item),
             existing \in Pick(_get_existing_same_day(inv, item, d)),
             prev \in _previous_closing_for(inv, item, d) :
          /\ inv' = _upsert_inventory_daily(inv, nextId, itemRow, d, din, dout,
                                            dret, existing, prev)
          /\ UpsertBounded(inv')
          /\ nextId' = IF existing # NoRow THEN nextId ELSE nextId + 1
          /\ last' = Outcome("Upsert", TRUE, "",
                             IF existing # NoRow THEN existing.id ELSE nextId, dout,
                             UpsertCounters(existing, prev, din, dout, dret).closing,
                             d, "")
                       @@ [item |-> item, wh |-> itemRow.wh, din |-> din,
                           dret |-> dret, existing |-> existing, prev |-> prev,
                           n |-> UpsertsDone + 1]
  /\ UNCHANGED <<nextItem, movements, salesLog, salesHist, purchases, purchHist,
                 nextSale, nextPurch, today, procs>>

RECURSIVE SumQ(_)
SumQ(S) ==
  IF S = {} THEN 0
  ELSE LET x == CHOOSE y \in S : TRUE IN x.q + SumQ(S \ {x})

\* the duplicate guards of update_inventory_balances
PurchaseAlreadyLogged(rows, pid) ==
  pid # 0 /\ \E r \in rows : r.pid = pid

SaleAlreadyLogged(rows, sid) ==
  sid # 0 /\ \E r \in rows : r.sid = sid

MinOf(S) ==
  CHOOSE x \in S : \A y \in S : x <= y

\* the loop over deltas.items(): the possible results [rows, nid, err];
\* a _resolve_item that finds nothing raises and ends the request there
RECURSIVE UpsertLoop(_, _, _, _, _, _)
UpsertLoop(rows, nid, items, d, srows, prows) ==
  IF items = {} THEN {[rows |-> rows, nid |-> nid, err |-> ""]}
  ELSE LET i == MinOf(items)
           existing == Pick(_get_existing_same_day(rows, i, d))
       IN  IF _resolve_item(rows, i) = {}
           THEN {[rows |-> rows, nid |-> nid, err |-> "not_found"]}
           ELSE UNION {UpsertLoop(
                         _upsert_inventory_daily(rows, nid, c[1], d,
                             SumQ({p \in prows : p.item = i}),
                             SumQ({x \in srows : x.item = i}), 0, c[2], c[3]),
                         IF c[2] # NoRow THEN nid ELSE nid + 1,
                         items \ {i}, d, srows, prows)
                       : c \in _resolve_item(rows, i) \X existing
                                 \X _previous_closing_for(rows, i, d)}

\* upsert(on_conflict=sale_id / purchase_id) of the moved rows into a
\* history table
_move_sales_to_history(log, hist, d) ==
  LET srows == {x \in log : x.date = d}
  IN  [log |-> {x \in log : \A m \in srows : m.sid # x.sid},
       hist |-> {h \in hist : \A m \in srows : m.sid # h.sid} \cup srows]

_move_purchases_to_history(log, hist, d) ==
  LET prows == {x \in log : x.date = d}
  IN  [log |-> {x \in log : \A m \in prows : m.pid # x.pid},
       hist |-> {h \in hist : \A m \in prows : m.pid # h.pid} \cup prows]

\* the archive loops when the delete of one row raises after its upsert into
\* the history table went through: the rows moved before it are in the
\* history table only, that row is in both tables, the others were not
\* reached.  The possible results [log, hist].
SalesDeleteFails(log, hist, d) ==
  LET srows == {x \in log : x.date = d}
  IN  {[log |-> log \ done,
        hist |-> {h \in hist : \A m \in done \cup {x} : m.sid # h.sid}
                   \cup done \cup {x}]
       : <<x, done>> \in {c \in srows \X SUBSET srows : c[1] \notin c[2]}}

PurchasesDeleteFails(log, hist, d) ==
  LET prows == {x \in log : x.date = d}
  IN  {[log |-> log \ done,
        hist |-> {h \in hist : \A m \in done \cup {x} : m.pid # h.pid}
                   \cup done \cup {x}]
       : <<x, done>> \in {c \in prows \X SUBSET prows : c[1] \notin c[2]}}

\* fault names the database call of the archive step that raises: "none",
\* "sale_delete" (a delete from sales_master_log) or "purchase_delete" (a
\* delete from goods_bought)
CloseFaults == {"none", "sale_delete", "purchase_delete"}

update_inventory_balances(d, move, role, fault) ==
  LET srows == {x \in salesLog : x.date = d}
      prows == {p \in purchases : p.date = d}
      sfold == {x \in srows : ~SaleAlreadyLogged(inv, x.sid)}
      pfold == {p \in prows : ~PurchaseAlreadyLogged(inv, p.pid)}
      items == {x.item : x \in sfold \cup pfold}
      req == [role |-> role]
  IN
  /\ IF ~_assert_md_or_today(d, role, today)
     THEN /\ last' = (Outcome("CloseDay", FALSE, "forbidden_date", 0, 0, 0, d, "") @@ req)
          /\ UNCHANGED <<inv, nextId, salesLog, salesHist, purchases, purchHist>>
     ELSE IF srows = {} /\ prows = {}
     THEN /\ last' = (Outcome("CloseDay", TRUE, "nothing", 0, 0, 0, d, "") @@ req)
          /\ UNCHANGED <<inv, nextId, salesLog, salesHist, purchases, purchHist>>
     ELSE \E r \in UpsertLoop(inv, nextId, items, d, sfold, pfold) :
          LET ms == _move_sales_to_history(salesLog, salesHist, d)
              mp == _move_purchases_to_history(purchases, purchHist, d)
          IN  /\ inv' = r.rows
              /\ Bounded(inv')
              /\ nextId' = r.nid
              /\ IF r.err # "" \/ ~move
                 THEN /\ UNCHANGED <<salesLog, salesHist, purchases, purchHist>>
                      /\ last' = (Outcome("CloseDay", r.err = "", r.err, 0, 0, 0, d, "") @@ req)
                 ELSE IF fault = "sale_delete" /\ srows # {}
                 THEN /\ \E f \in SalesDeleteFails(salesLog, salesHist, d) :
                           salesLog' = f.log /\ salesHist' = f.hist
                      /\ UNCHANGED <<purchases, purchHist>>
                      /\ last' = (Outcome("CloseDay", FALSE, "move_failed", 0, 0, 0, d, "") @@ req)
                 ELSE IF fault = "purchase_delete" /\ prows # {}
                 THEN /\ salesLog' = ms.log
                      /\ salesHist' = ms.hist
                      /\ \E f \in PurchasesDeleteFails(purchases, purchHist, d) :
                           purchases' = f.log /\ purchHist' = f.hist
                      /\ last' = (Outcome("CloseDay", FALSE, "move_failed", 0, 0, 0, d, "") @@ req)
                 ELSE /\ salesLog' = ms.log
                      /\ salesHist' = ms.hist
                      /\ purchases' = mp.log
                      /\ purchHist' = mp.hist
                      /\ last' = (Outcome("CloseDay", TRUE, "", 0, 0, 0, d, "") @@ req)
  /\ UNCHANGED <<nextItem, movements, nextSale, nextPurch, today, procs>>

\* the move-to-history endpoint: the date check, then both archive loops
move_to_history(d, role) ==
  /\ IF ~_assert_md_or_today(d, role, today)
     THEN /\ last' = (Outcome("MoveToHistory", FALSE, "forbidden_date", 0, 0, 0, d, "")
                       @@ [role |-> role])
          /\ UNCHANGED <<salesLog, salesHist, purchases, purchHist>>
     ELSE LET ms == _move_sales_to_history(salesLog, salesHist, d)
              mp == _move_purchases_to_history(purchases, purchHist, d)
          IN  /\ salesLog' = ms.log
              /\ salesHist' = ms.hist
              /\ purchases' = mp.log
              /\ purchHist' = mp.hist
              /\ last' = (Outcome("MoveToHistory", TRUE, "", 0, 0, 0, d, "")
                           @@ [role |-> role])
  /\ UNCHANGED <<inv, nextId, nextItem, movements, nextSale, nextPurch, today, procs>>

\* ------------------------------------------------------------------------
\* routes/inventory.py: the row endpoints PUT /{log_id}, DELETE /{log_id}
\* and DELETE /item/{item_id}
\* ------------------------------------------------------------------------
\* update_inventory_log: the row with the columns the request names set to
\* the values it gives
LogOps == {"UpdateLog", "DeleteLog", "DeleteItem"}

\* the row-endpoint requests served since the last other request
LogOpsDone ==
  IF last.op \in LogOps THEN last.n ELSE 0

LogUpdate(r, open, sup, out, ret) ==
  [r EXCEPT !.open = IF open = <<>> THEN @ ELSE open[1],
            !.sup = IF sup = <<>> THEN @ ELSE sup[1],
            !.out = IF out = <<>> THEN @ ELSE out[1],
            !.ret = IF ret = <<>> THEN @ ELSE ret[1]]

update_inventory_log(id, open, sup, out, ret) ==
  /\ LogOpsDone < MaxLogOps
  /\ IF ~\E r \in inv : r.id = id
     THEN /\ last' = (Outcome("UpdateLog", FALSE, "not_found", id, 0, 0, 0, "")
                       @@ [n |-> LogOpsDone + 1])
          /\ UNCHANGED inv
     ELSE LET r == CHOOSE x \in inv : x.id = id
          IN  /\ inv' = Replace(inv, r, LogUpdate(r, open, sup, out, ret))
              /\ last' = (Outcome("UpdateLog", TRUE, "", id, 0, 0, r.date, "")
                           @@ [n |-> LogOpsDone + 1])
  /\ UNCHANGED <<nextId, nextItem, movements, salesLog, salesHist, purchases,
                 purchHist, nextSale, nextPurch, today, procs>>

\* delete_inventory_log: .delete().eq("id", log_id)
DeleteRow(rows, id) ==
  {r \in rows : r.id # id}

delete_inventory_log(id) ==
  /\ LogOpsDone < MaxLogOps
  /\ IF ~\E r \in inv : r.id = id
     THEN /\ last' = (Outcome("DeleteLog", FALSE, "not_found", id, 0, 0, 0, "")
                       @@ [n |-> LogOpsDone + 1])
          /\ UNCHANGED inv
     ELSE /\ inv' = DeleteRow(inv, id)
          /\ last' = (Outcome("DeleteLog", TRUE, "", id, 0, 0, 0, "")
                       @@ [item |-> (CHOOSE x \in inv : x.id = id).item,
                           n |-> LogOpsDone + 1])
  /\ UNCHANGED <<nextId, nextItem, movements, salesLog, salesHist, purchases,
                 purchHist, nextSale, nextPurch, today, procs>>

\* delete_inventory_item: the owner only; the sale and purchase rows of the
\* item, then every balance row of the item
delete_inventory_item(item, role) ==
  /\ LogOpsDone < MaxLogOps
  /\ IF role # "md"
     THEN /\ last' = (Outcome("DeleteItem", FALSE, "forbidden", 0, 0, 0, 0, "")
                       @@ [item |-> item, n |-> LogOpsDone + 1])
          /\ UNCHANGED <<inv, salesLog, salesHist, purchases, purchHist>>
     ELSE IF ~\E r \in inv : r.item = item
     THEN /\ last' = (Outcome("DeleteItem", FALSE, "not_found", 0, 0, 0, 0, "")
                       @@ [item |-> item, n |-> LogOpsDone + 1])
          /\ UNCHANGED <<inv, salesLog, salesHist, purchases, purchHist>>
     ELSE /\ salesHist' = {x \in salesHist : x.item # item}
          /\ salesLog' = {x \in salesLog : x.item # item}
          /\ purchHist' = {x \in purchHist : x.item # item}
          /\ purchases' = {x \in purchases : x.item # item}
          /\ inv' = {r \in inv : r.item # item}
          /\ last' = (Outcome("DeleteItem", TRUE, "", 0, 0, 0, 0, "")
                       @@ [item |-> item, n |-> LogOpsDone + 1])
  /\ UNCHANGED <<nextId, nextItem, movements, nextSale, nextPurch, today, procs>>

\* ------------------------------------------------------------------------
\* Sequential specifications: requests are served one at a time, from an
\* empty database.  Each covers one group of handlers.
\* ------------------------------------------------------------------------
ItemInputs ==
  {r.item : r \in inv} \cup {MaxRows + 1}

\* Spec: sales, restocks and the daily close
Next ==
  \/ \E q \in Qtys, d \in Dates :
       NewItem("a", "W1", q, d)
  \/ \E item \in ItemInputs, q \in Qtys, d \in Dates, role \in Roles,
        errored \in BOOLEAN :
       create_sale_batch(item, q, d, role, errored)
  \/ \E item \in ItemInputs, q \in Qtys, d \in Dates :
       batch_restock(item, "W1", q, d)
  \/ \E d \in Dates, move \in BOOLEAN, role \in Roles, fault \in CloseFaults :
       update_inventory_balances(d, move, role, fault)
  \/ \E d \in Dates, role \in Roles :
       move_to_history(d, role)
  \/ AdvanceDay

Spec ==
  Init /\ [][Next]_vars

\* the reasons a write-off request may give: none, one of 4 characters and
\* one of 6
Reasons ==
  {<<>>, <<"l", "o", "s", "t">>, <<"b", "r", "o", "k", "e", "n">>}

\* the quantities a movement request may carry, zero included
RequestQtys == 0..MaxQty

\* SpecMove: the stock movement endpoints, with manual adjustment

NextMove ==
  \/ \E d \in Dates :
       NewItem("a", "W1", MaxQty, d)
  \/ \E item \in ItemInputs, d \in Dates, role \in Roles :
       manual_inventory_adjustment(item, <<>>, <<>>, <<>>, d, role, "c1")
  \/ \E wh \in Warehouses, item \in ItemInputs, q \in RequestQtys, d \in Dates :
       customer_sale(wh, item, q, d)
  \/ \E wh \in Warehouses, item \in ItemInputs, q \in RequestQtys, d \in Dates,
        reason \in Reasons :
       stockout_writeoff(wh, item, q, d, reason)
  \/ \E src \in Warehouses, dst \in Warehouses, item \in ItemInputs,
        nameTo \in {"", "b"}, q \in RequestQtys, d \in Dates, fault \in Faults :
       warehouse_transfer(src, dst, item, "a", nameTo, q, d, fault)

SpecMove ==
  Init /\ [][NextMove]_vars

\* SpecDay: proforma conversion, daily close and issuance on one item
NextDay ==
  \/ \E d \in Dates :
       NewItem("a", "W1", MaxQty, d)
  \/ \E item \in ItemInputs, d \in Dates :
       manual_inventory_adjustment(item, <<>>, <<>>, <<>>, d, "md", "c1")
  \/ \E pf \in 1..MaxProforma, item \in ItemInputs, q \in Qtys, d \in Dates,
        wh \in Warehouses \cup {""} :
       nextSale <= MaxSales /\ convert_proforma(pf, item, q, d, wh)
  \/ \E d \in Dates, move \in BOOLEAN :
       update_inventory_balances(d, move, "md", "none")
  \/ \E wh \in Warehouses, item \in ItemInputs, q \in Qtys, d \in Dates :
       customer_sale(wh, item, q, d)
  \/ AdvanceDay

SpecDay ==
  Init /\ [][NextDay]_vars

\* SpecBatch: sale batches with two lines of one item, on ledgers that new
\* items, restocks and daily closes have built
NextBatch ==
  \/ \E q \in Qtys, d \in Dates :
       NewItem("a", "W1", q, d)
  \/ \E item \in ItemInputs, q \in Qtys, d \in Dates :
       batch_restock(item, "W1", q, d)
  \/ \E item \in ItemInputs, q1 \in Qtys, q2 \in Qtys, d \in Dates, role \in Roles :
       create_sale_batch_lines(item, q1, q2, d, role)
  \/ \E d \in Dates, move \in BOOLEAN :
       update_inventory_balances(d, move, "md", "none")
  \/ AdvanceDay

SpecBatch ==
  Init /\ [][NextBatch]_vars

\* SpecProforma: proforma conversions, repeated, between daily closes
NextProforma ==
  \/ \E d \in Dates :
       NewItem("a", "W1", MaxQty, d)
  \/ \E pf \in 1..MaxProforma, item \in ItemInputs, q \in Qtys :
       convert_proforma(pf, item, q, today, "W1")
  \/ \E d \in Dates, move \in BOOLEAN :
       update_inventory_balances(d, move, "md", "none")
  \/ \E d \in Dates :
       move_to_history(d, "md")
  \/ AdvanceDay

SpecProforma ==
  Init /\ [][NextProforma]_vars

\* SpecUpsert: the upsert applied to ledgers that a new item, a manual
\* adjustment and a transfer to the other warehouse have built
Deltas == -1..1

OutDeltas == -1..MaxQty

UpsertDates == 1..(MaxDate + 1)

NextUpsert ==
  \/ \E d \in Dates :
       last.op # "Upsert" /\ NewItem("a", "W1", MaxQty, d)
  \/ last.op # "Upsert"
       /\ manual_inventory_adjustment(1, <<>>, <<>>, <<>>, MaxDate, "md", "c1")
  \/ \E q \in Qtys :
       last.op # "Upsert"
         /\ warehouse_transfer("W1", "W2", 1, "a", "", q, MaxDate, "none")
  \/ \E item \in ItemInputs, d \in UpsertDates, din \in Deltas, dout \in OutDeltas,
        dret \in Deltas :
       Upsert(item, d, din, dout, dret)

SpecUpsert ==
  Init /\ [][NextUpsert]_vars

\* SpecLog: the row endpoints, applied to ledgers that new items, issuances
\* and transfers have built
\* the open_balance, supplied_quantity, stock_out and return_quantity of the
\* update requests tried
LogUpdates ==
  {<<<<>>, <<1>>, <<>>, <<>>>>, <<<<>>, <<>>, <<-1>>, <<>>>>,
   <<<<1>>, <<>>, <<>>, <<0>>>>}

RowIds ==
  1..(MaxRows + 1)

\* set-up steps run before the row endpoints, or after one update
LogSetUp ==
  /\ nextId <= MaxRows
  /\ last.op \in LogOps => (last.op = "UpdateLog" /\ last.n = 1)

NextLog ==
  \/ \E d \in Dates :
       LogSetUp /\ NewItem("a", "W1", MaxQty, d)
  \/ LogSetUp /\ AdvanceDay
  \/ \E item \in ItemInputs, q \in Qtys :
       LogSetUp /\ customer_sale("W1", item, q, today)
  \/ \E item \in ItemInputs, q \in Qtys :
       LogSetUp /\ warehouse_transfer("W1", "W2", item, "a", "", q, today, "none")
  \/ \E id \in RowIds, u \in LogUpdates :
       update_inventory_log(id, u[1], u[2], u[3], u[4])
  \/ \E id \in RowIds :
       delete_inventory_log(id)
  \/ \E item \in ItemInputs, role \in Roles :
       delete_inventory_item(item, role)

SpecLog ==
  Init /\ [][NextLog]_vars

\* SpecAdjust: manual adjustment and item return, applied to ledgers that
\* a new item, a manual adjustment and a transfer to the other warehouse
\* have built
\* the supplied_quantity, stock_out and return_quantity of the
\* ManualAdjustmentRequests tried: none named, one named, all named
AdjustRequests ==
  {<<<<>>, <<>>, <<>>>>, <<<<1>>, <<>>, <<>>>>, <<<<>>, <<1>>, <<>>>>,
   <<<<0>>, <<0>>, <<1>>>>}

\* callers: their role, the code stored for them and the code they present
Callers ==
  {[role |-> "md", stored |-> "c1", code |-> "c1"],
   [role |-> "md", stored |-> "c1", code |-> "c2"],
   [role |-> "employee", stored |-> "c1", code |-> "c1"],
   [role |-> "employee", stored |-> "c1", code |-> "c2"],
   [role |-> "employee", stored |-> "", code |-> ""],
   [role |-> "employee", stored |-> "", code |-> "c1"]}

AdjustOps == {"ManualAdjust", "ReturnItem"}

\* the ledger is still being built: no adjustment or return has been made
\* since the last other write, or one adjustment that named no counter
Building ==
  \/ last.op \notin AdjustOps
  \/ /\ last.op = "ManualAdjust" /\ last.n = 1
     /\ last.sup = <<>> /\ last.out = <<>> /\ last.ret = <<>>

NextAdjust ==
  \/ \E d \in Dates :
       Building /\ NewItem("a", "W1", MaxQty, d)
  \/ Building /\ AdvanceDay
  \/ \E q \in Qtys :
       Building /\ warehouse_transfer("W1", "W2", 1, "a", "", q, MaxDate, "none")
  \/ \E item \in ItemInputs, c \in AdjustRequests, d \in UpsertDates, u \in Callers :
       manual_inventory_adjustment(item, c[1], c[2], c[3], d, u.role, u.stored)
  \/ \E item \in ItemInputs, q \in Qtys, d \in UpsertDates, u \in Callers :
       return_item_to_inventory(item, q, d, u.code, u.role, u.stored)

SpecAdjust ==
  Init /\ [][NextAdjust]_vars

\* ------------------------------------------------------------------------
\* SpecConc: two requests served concurrently.  The server runs each handler
\* as its own task and every supabase call is one round trip to the
\* database, so a step is one database call and the steps of the two
\* requests interleave freely.  The requests are customer_sale (b2b.py) and
\* return_item_to_inventory (inventory.py) on item 1 of warehouse W1.
\* The ledger starts as NewItem("a", "W1", MaxQty, 1) followed by an empty
\* manual adjustment on day MaxDate leaves it.
\* ------------------------------------------------------------------------
NProcs == 2

Procs == 1..NProcs

ConcDates == {MaxDate, MaxDate + 1}

InitConc ==
  /\ inv = {Row(1, 1, "a", "W1", 1, 0, MaxQty, 0, 0),
            Row(2, 1, "a", "W1", MaxDate, MaxQty, 0, 0, 0)}
  /\ nextId = 3
  /\ nextItem = 2
  /\ movements = <<>>
  /\ salesLog = {}
  /\ salesHist = {}
  /\ purchases = {}
  /\ purchHist = {[pid |-> 1, item |-> 1, q |-> MaxQty, date |-> 1]}
  /\ nextSale = 1
  /\ nextPurch = 2
  /\ today = MaxDate
  /\ last = NoOutcome
  /\ procs = [p \in Procs |-> Idle]

ConcFrame ==
  UNCHANGED <<nextItem, salesLog, salesHist, purchases, purchHist, nextSale,
              nextPurch, today, last>>

\* the request arrives
Start(p, kind, q, d) ==
  /\ procs[p].pc = "idle"
  /\ procs' = [procs EXCEPT ![p] = [Idle EXCEPT !.pc = "guard", !.kind = kind,
                                                !.q = q, !.date = d]]
  /\ UNCHANGED <<inv, nextId, movements>>
  /\ ConcFrame

\* customer_sale: _get_item_stock and _validate_sufficient_stock;
\* return_item_to_inventory: the access checks pass, then _resolve_item
Guard(p) ==
  /\ procs[p].pc = "guard"
  /\ IF procs[p].kind = "Issue"
     THEN \E it \in _get_item_stock(inv, "W1", 1, procs[p].date) :
            procs' = [procs EXCEPT ![p].it = it,
                        ![p].pc = IF _validate_sufficient_stock(it, procs[p].q) = "ok"
                                  THEN "lookup" ELSE "done"]
     ELSE \E it \in Pick(_resolve_item(inv, 1)) :
            procs' = [procs EXCEPT ![p].it = it,
                        ![p].pc = IF it = NoRow THEN "done" ELSE "lookup"]
  /\ UNCHANGED <<inv, nextId, movements>>
  /\ ConcFrame

\* the read of the day's row: existing_record / same_day
Lookup(p) ==
  /\ procs[p].pc = "lookup"
  /\ \E ex \in Pick(IF procs[p].kind = "Issue"
                    THEN StockOutExisting(inv, procs[p].it, procs[p].date)
                    ELSE _get_existing_same_day(inv, 1, procs[p].date)) :
       procs' = [procs EXCEPT ![p].ex = ex,
                   ![p].pc = IF ex = NoRow /\ procs[p].kind = "Issue"
                             THEN "prev" ELSE "write"]
  /\ UNCHANGED <<inv, nextId, movements>>
  /\ ConcFrame

\* _update_inventory_stock_out: the read of the previous day's row
Prev(p) ==
  /\ procs[p].pc = "prev"
  /\ \E prev \in Pick(StockOutPrev(inv, procs[p].it, procs[p].date)) :
       procs' = [procs EXCEPT ![p].prev = prev, ![p].pc = "write"]
  /\ UNCHANGED <<inv, nextId, movements>>
  /\ ConcFrame

\* the update or insert, computed from the rows read earlier
Write(p) ==
  LET me == procs[p]
  IN
  /\ me.pc = "write"
  /\ IF me.kind = "Issue"
     THEN inv' = _update_inventory_stock_out(inv, nextId, me.it, me.q,
                                             me.date, me.ex, me.prev)
     ELSE inv' = IF me.ex # NoRow
                 THEN {IF r.item = 1 /\ r.date = me.date
                       THEN [r EXCEPT !.ret = me.ex.ret + me.q] ELSE r : r \in inv}
                 ELSE inv \cup {Row(nextId, 1, me.it.name, me.it.wh, me.date,
                                    0, 0, 0, me.q)}
  /\ nextId' = IF me.ex # NoRow THEN nextId ELSE nextId + 1
  /\ procs' = [procs EXCEPT ![p].pc = IF me.kind = "Issue" THEN "log" ELSE "done",
                            ![p].ok = (me.kind # "Issue")]
  /\ UNCHANGED movements
  /\ ConcFrame

\* customer_sale: _log_stock_movement, then the response
Log(p) ==
  /\ procs[p].pc = "log"
  /\ movements' = InsertMovement(movements,
        _log_stock_movement("Issue", "W1", "", 1, 1, procs[p].q, <<>>))
  /\ procs' = [procs EXCEPT ![p].pc = "done", ![p].ok = TRUE]
  /\ UNCHANGED <<inv, nextId>>
  /\ ConcFrame

NextConc ==
  \E p \in Procs :
    \/ \E kind \in {"Issue", "Return"}, q \in Qtys, d \in ConcDates :
         Start(p, kind, q, d)
    \/ Guard(p)
    \/ Lookup(p)
    \/ Prev(p)
    \/ Write(p)
    \/ Log(p)

SpecConc ==
  InitConc /\ [][NextConc]_vars

\* ------------------------------------------------------------------------
\* SpecMint: NProcs concurrent warehouse_transfer requests (b2b.py) that move
\* item 1 from W1 to W2 on day MaxDate, each under the destination name it
\* gives.  The ledger starts as in SpecConc.  A step is one database call of
\* the destination side; the source side (_update_inventory_stock_out) is
\* taken as one step.
\* ------------------------------------------------------------------------
MintIdle ==
  [pc |-> "idle", nameTo |-> "", q |-> 0, it |-> NoRow, dest |-> 0, ok |-> FALSE]

InitMint ==
  /\ inv = {Row(1, 1, "a", "W1", 1, 0, MaxQty, 0, 0),
            Row(2, 1, "a", "W1", MaxDate, MaxQty, 0, 0, 0)}
  /\ nextId = 3
  /\ nextItem = 2
  /\ movements = <<>>
  /\ salesLog = {}
  /\ salesHist = {}
  /\ purchases = {}
  /\ purchHist = {[pid |-> 1, item |-> 1, q |-> MaxQty, date |-> 1]}
  /\ nextSale = 1
  /\ nextPurch = 2
  /\ today = MaxDate
  /\ last = NoOutcome
  /\ procs = [p \in Procs |-> MintIdle]

\* the request arrives: to_item_name is nameTo, or the source name if unset
MintStart(p, nameTo, q) ==
  /\ procs[p].pc = "idle"
  /\ procs' = [procs EXCEPT ![p] = [MintIdle EXCEPT !.pc = "guard", !.q = q,
                                       !.nameTo = IF nameTo # "" THEN nameTo ELSE "a"]]
  /\ UNCHANGED <<inv, nextId, movements>>
  /\ ConcFrame

\* _get_item_stock and _validate_sufficient_stock on the source
MintGuard(p) ==
  /\ procs[p].pc = "guard"
  /\ \E it \in _get_item_stock(inv, "W1", 1, MaxDate) :
       procs' = [procs EXCEPT ![p].it = it,
                   ![p].pc = IF _validate_sufficient_stock(it, procs[p].q) = "ok"
                             THEN "out" ELSE "done"]
  /\ UNCHANGED <<inv, nextId, movements>>
  /\ ConcFrame

\* _update_inventory_stock_out on the source row
MintOut(p) ==
  LET me == procs[p]
  IN
  /\ me.pc = "out"
  /\ \E ex \in Pick(StockOutExisting(inv, me.it, MaxDate)),
        prev \in Pick(StockOutPrev(inv, me.it, MaxDate)) :
       /\ inv' = _update_inventory_stock_out(inv, nextId, me.it, me.q, MaxDate, ex, prev)
       /\ nextId' = IF ex # NoRow THEN nextId ELSE nextId + 1
  /\ procs' = [procs EXCEPT ![p].pc = "name"]
  /\ UNCHANGED movements
  /\ ConcFrame

\* _update_inventory_stock_in: the lookup of the destination name in every
\* warehouse
MintName(p) ==
  LET me == procs[p]
      byName == Latest({r \in inv : r.name = me.nameTo})
  IN
  /\ me.pc = "name"
  /\ IF byName # {}
     THEN \E r \in byName :
            procs' = [procs EXCEPT ![p].dest = r.item, ![p].pc = "in"]
     ELSE IF me.nameTo # "a"
     THEN procs' = [procs EXCEPT ![p].pc = "max"]
     ELSE procs' = [procs EXCEPT ![p].dest = 1, ![p].pc = "in"]
  /\ UNCHANGED <<inv, nextId, movements>>
  /\ ConcFrame

\* _update_inventory_stock_in: the read of the greatest item_id, plus one
MintMax(p) ==
  /\ procs[p].pc = "max"
  /\ \E r \in Pick(MaxItem(inv)) :
       procs' = [procs EXCEPT ![p].dest = (IF r = NoRow THEN 1 ELSE r.item) + 1,
                              ![p].pc = "in"]
  /\ UNCHANGED <<inv, nextId, movements>>
  /\ ConcFrame

\* _update_inventory_stock_in: the reads of the destination rows and the
\* update or insert
MintIn(p) ==
  LET me == procs[p]
  IN
  /\ me.pc = "in"
  /\ \E exact \in Pick(StockInExact(inv, "W2", me.dest, MaxDate)),
        prev \in Pick(StockInPrev(inv, "W2", me.dest, MaxDate)) :
       /\ inv' = _update_inventory_stock_in(inv, nextId, "W2", me.dest, me.nameTo,
                                            me.q, MaxDate, exact, prev)
       /\ nextId' = IF exact # NoRow THEN nextId ELSE nextId + 1
  /\ procs' = [procs EXCEPT ![p].pc = "log"]
  /\ UNCHANGED movements
  /\ ConcFrame

\* _log_stock_movement, then the response
MintLog(p) ==
  /\ procs[p].pc = "log"
  /\ movements' = InsertMovement(movements,
        _log_stock_movement("Transfer", "W1", "W2", 1, procs[p].dest,
                            procs[p].q, <<>>))
  /\ procs' = [procs EXCEPT ![p].pc = "done", ![p].ok = TRUE]
  /\ UNCHANGED <<inv, nextId>>
  /\ ConcFrame

NextMint ==
  \E p \in Procs :
    \/ \E nameTo \in {"", "b", "c"}, q \in Qtys :
         MintStart(p, nameTo, q)
    \/ MintGuard(p)
    \/ MintOut(p)
    \/ MintName(p)
    \/ MintMax(p)
    \/ MintIn(p)
    \/ MintLog(p)

SpecMint ==
  InitMint /\ [][NextMint]_vars

\* ------------------------------------------------------------------------
\* Properties
\* ------------------------------------------------------------------------
NonNegative(rows) ==
  \A r \in rows : Closing(r) >= 0

\* the operations of the ledger engine, as last.op names them
EngineOps ==
  {"CloseDay", "Issue", "WriteOff", "Transfer", "ReturnItem"}

\* C1: no operation of the engine (Upsert, Transfer, Issue, WriteOff,
\* ReturnItem, CloseDay) takes a ledger whose closing balances are all
\* non-negative to one with a row whose closing balance is below 0.
C1_EngineKeepsClosingNonNegative ==
  [][(last'.op \in EngineOps /\ NonNegative(inv)) => NonNegative(inv')]_vars

\* C3: for every (item, warehouse) the open_balance of a row equals the
\* closing_balance of the most recent earlier row, and the earliest row
\* opens at 0.
C3_Continuity ==
  \A r \in inv :
    LET before == {p \in inv : p.item = r.item /\ p.wh = r.wh /\ p.date < r.date}
    IN  IF before = {} THEN r.open = 0
        ELSE \A p \in Latest(before) : r.open = Closing(p)

Counters(rows) ==
  {<<r.id, r.open, r.sup, r.out, r.ret>> : r \in rows}

\* C5: a CloseDay that follows a successful CloseDay of the same date leaves
\* the history tables and the counters of every ledger row as they were.
C5_CloseDayIdempotent ==
  [][(last.op = "CloseDay" /\ last.ok /\ last'.op = "CloseDay" /\ last'.ok
      /\ last'.date = last.date)
     => (Counters(inv') = Counters(inv) /\ salesHist' = salesHist
         /\ purchHist' = purchHist)]_vars

\* C4: a warehouse transfer that fails changes neither the ledger nor the
\* movement log (all-or-nothing).
C4_TransferAllOrNothing ==
  [][(last'.op = "Transfer" /\ ~last'.ok)
     => (inv' = inv /\ movements' = movements)]_vars

\* the verdict CheckAvailability is specified to return
CheckAvailability(avail, q) ==
  IF avail <= 0 THEN "zero_stock"
  ELSE IF avail < q THEN "insufficient"
  ELSE "ok"

\* C6: whenever a guard has judged the stock of an item it found, its
\* verdict is zero-stock exactly when the closing balance it read is <= 0,
\* insufficient exactly when 0 < closing < requested, and OK otherwise.
C6_GuardVerdict ==
  last.verdict \in {"ok", "zero_stock", "insufficient", "not_restocked"}
    => last.verdict = CheckAvailability(last.avail, last.q)

Deducted(o) ==
  \/ o.op = "Sale" /\ o.ok
  \/ o.op = "Proforma" /\ o.err \in {"updated", "created"}
  \/ o.op \in {"Issue", "WriteOff"} /\ o.ok
  \/ o.op = "Transfer" /\ (o.ok \/ o.err \in {"dest_failed", "log_failed"})

\* C8: every request that deducted stock for a sale ran an availability
\* check that returned OK.
C8_DeductionAfterOkCheck ==
  Deducted(last) => last.verdict = "ok"

\* ------------------------------------------------------------------------
\* Properties of the concurrent specification
\* ------------------------------------------------------------------------
AllDone ==
  \A p \in Procs : procs[p].pc = "done"

RECURSIVE Total(_, _, _)
\* the quantity the successful requests of a kind posted on a date
Total(ps, kind, d) ==
  IF ps = {} THEN 0
  ELSE LET p == CHOOSE x \in ps : TRUE
           mine == IF procs[p].kind = kind /\ procs[p].date = d /\ procs[p].ok
                   THEN procs[p].q ELSE 0
       IN  mine + Total(ps \ {p}, kind, d)

RECURSIVE Requested(_)
Requested(ps) ==
  IF ps = {} THEN 0
  ELSE LET p == CHOOSE x \in ps : TRUE
       IN  procs[p].q + Requested(ps \ {p})

\* every request is an issuance on day MaxDate and together they ask for
\* the MaxQty units in stock
IssuesExhaustStock ==
  /\ \A p \in Procs : procs[p].pc # "idle" /\ procs[p].kind = "Issue"
                       /\ procs[p].date = MaxDate
  /\ Requested(Procs) = MaxQty

\* C2: concurrent issuances on one item, warehouse and day that ask for
\* exactly the stock never make a balance negative, and once all have
\* returned every one succeeded and the day's closing balance is 0.
C2_ConcurrentIssuesExhaust ==
  IssuesExhaustStock
    => /\ NonNegative(inv)
       /\ AllDone => /\ \A p \in Procs : procs[p].ok
                      /\ \A r \in inv : r.date = MaxDate => Closing(r) = 0

\* C9: at most one ledger row per (item, warehouse, date).
C9_OneRowPerKey ==
  \A r1, r2 \in inv :
    (r1.item = r2.item /\ r1.wh = r2.wh /\ r1.date = r2.date) => r1.id = r2.id

\* C10: once the concurrent requests have returned, the counters of the row
\* of day MaxDate hold the deltas of every successful request on that day.
C10_NoLostUpdate ==
  AllDone
    => \A r \in inv :
         r.date = MaxDate => /\ r.out = Total(Procs, "Issue", MaxDate)
                             /\ r.ret = Total(Procs, "Return", MaxDate)

\* C11: whether the last daily close returned or failed, no sale or purchase
\* source row is in both its mutable table and its history table.
C11_SourceRowInOneTable ==
  /\ \A x \in salesLog : \A h \in salesHist : h.sid # x.sid
  /\ \A p \in purchases : \A h \in purchHist : h.pid # p.pid

\* C12: after a daily close that folded the source rows of its date, every
\* sale and purchase row of that date that was in the mutable tables has
\* its id on a ledger row, which is what the duplicate guards look for.
C12_FoldedRowCarriesSourceId ==
  [][(last'.op = "CloseDay" /\ last'.ok /\ last'.err = "")
     => /\ \A x \in salesLog :
             x.date = last'.date => \E r \in inv' : r.sid = x.sid
        /\ \A p \in purchases :
             p.date = last'.date => \E r \in inv' : r.pid = p.pid]_vars

\* the ledger rows an upsert of last's item and date wrote
UpsertWritten ==
  {r \in inv : r.item = last.item /\ r.date = last.date}

\* C13: the closing balance of the row a successful upsert returns is
\* open + supplied + returned - stock_out of every row it wrote, the value
\* the ledger derives for them.
C13_ReturnedClosingIsDerived ==
  (last.op = "Upsert" /\ last.ok)
    => /\ UpsertWritten # {}
       /\ \A r \in UpsertWritten : last.avail = Closing(r)

\* an upsert that merged a positive stock_out and clamped it
C13_Witness ==
  /\ last.op = "Upsert" /\ last.ok /\ last.q > 0
  /\ \E r \in UpsertWritten : r.id = last.row /\ r.out = 0 /\ last.avail = Closing(r)

MovementOps == {"Transfer", "Issue", "WriteOff"}

\* the errors of request validation and of the stock guard
Rejections ==
  {"invalid", "same_warehouse", "not_found", "not_restocked", "insufficient"}

\* C14: a transfer, issue or write-off with a non-positive quantity is
\* rejected, and one that validation or the stock guard rejects leaves the
\* ledger and the movement log as they were.
C14_RejectionMutatesNothing ==
  [][(last'.op \in MovementOps /\ (last'.q <= 0 \/ last'.err \in Rejections))
       => /\ last'.err \in Rejections /\ ~last'.ok
          /\ inv' = inv /\ nextId' = nextId /\ movements' = movements]_vars

\* the stock guard rejected a movement for insufficient stock on a ledger
\* that has rows and a movement logged
C14_Witness ==
  /\ last.op \in MovementOps /\ last.err = "insufficient"
  /\ inv # {} /\ movements # <<>>

\* the ledger of an item whose only row is a day-1 supply of MaxQty
SuppliedOnDayOne ==
  {Row(1, 1, "a", "W1", 1, 0, MaxQty, 0, 0)}

\* C15: with a day-1 row {open 0, supplied MaxQty, closing MaxQty} as the
\* item's only row, an issue on day 2 of a quantity that the availability
\* check accepts succeeds and creates the day-2 row {open MaxQty, supplied 0,
\* stock_out q, returned 0}.
C15_SupplyThenIssueNextDay ==
  [][(/\ inv = SuppliedOnDayOne
      /\ last'.op = "Issue" /\ last'.date = 2 /\ last'.q \in 1..MaxQty
      /\ last'.verdict # "not_found"
      /\ CheckAvailability(Closing(Row(1, 1, "a", "W1", 1, 0, MaxQty, 0, 0)),
                           last'.q) = "ok")
       => /\ last'.ok
          /\ inv' = inv \cup {Row(2, 1, "a", "W1", 2, MaxQty, 0, last'.q, 0)}]_vars

\* r is the row of the key (item, warehouse, date) the upsert recorded in
\* o was called for
UpsertKey(r, o) ==
  r.item = o.item /\ r.wh = o.wh /\ r.date = o.date

\* C16: an upsert of non-negative deltas on a key that has a row adds the three deltas to that row
\* (stock_out may instead be clamped to 0 when nothing is available), keeps
\* its open balance, and leaves every row of every other key as it was,
\* rows of the same item and date in another warehouse included.
C16_UpsertFrame ==
  [][(/\ last'.op = "Upsert" /\ last'.ok
      /\ last'.din >= 0 /\ last'.q >= 0 /\ last'.dret >= 0
      /\ \E r \in inv : UpsertKey(r, last'))
       => /\ \A r \in inv : ~UpsertKey(r, last') => r \in inv'
          /\ \A r \in inv : UpsertKey(r, last') =>
                \E w \in inv' :
                  /\ w.id = r.id /\ w.open = r.open
                  /\ w.sup = r.sup + last'.din /\ w.ret = r.ret + last'.dret
                  /\ \/ w.out = r.out + last'.q
                     \/ w.out = 0 /\ w.open + w.sup + w.ret <= 0]_vars

\* the closing balance of the most recent row of the key's item and
\* warehouse before date d, 0 when there is none
PreviousClosingOfKey(rows, item, wh, d) ==
  LET before == {r \in rows : r.item = item /\ r.wh = wh /\ r.date < d}
  IN  IF before = {} THEN {0} ELSE {Closing(r) : r \in Latest(before)}

\* C17: an upsert of non-negative deltas on a key that has no row creates
\* one row for it whose open balance is the closing balance of the most
\* recent earlier row of the same item and warehouse (0 when there is none)
\* and whose counters are the deltas; no other row changes.
C17_UpsertCreatesFromPrevious ==
  [][(/\ last'.op = "Upsert" /\ last'.ok
      /\ last'.din >= 0 /\ last'.q >= 0 /\ last'.dret >= 0
      /\ ~\E r \in inv : UpsertKey(r, last'))
       => \E w \in inv' :
            /\ inv' = inv \cup {w} /\ w \notin inv /\ UpsertKey(w, last')
            /\ w.open \in PreviousClosingOfKey(inv, last'.item, last'.wh, last'.date)
            /\ w.sup = last'.din /\ w.ret = last'.dret
            /\ \/ w.out = last'.q
               \/ w.out = 0 /\ w.open + w.sup + w.ret <= 0]_vars

\* C18: after an upsert that merged a positive stock_out delta (with no
\* negative delta, on a ledger with no negative counter), the row it wrote has, when open + supplied + returned
\* is <= 0, its stock_out clamped and a closing balance that is not
\* negative, and otherwise the unclamped stock_out: the earlier stock_out
\* plus the delta.
C18_ClampKeepsClosingNonNegative ==
  (/\ last.op = "Upsert" /\ last.ok
   /\ last.q > 0 /\ last.din >= 0 /\ last.dret >= 0
   /\ \A r \in inv : r.sup >= 0 /\ r.out >= 0 /\ r.ret >= 0)
    => \A w \in inv : w.id = last.row =>
         IF w.open + w.sup + w.ret <= 0
         THEN w.out = 0 /\ Closing(w) >= 0
         ELSE w.out = (IF last.existing # NoRow THEN last.existing.out ELSE 0) + last.q

\* C19: an upsert with a negative delta fails and an upsert for an item
\* the ledger does not know fails, and neither creates or changes a ledger
\* row.
C19_UpsertRejectsBadInput ==
  [][(/\ last'.op = "Upsert"
      /\ \/ last'.din < 0 \/ last'.q < 0 \/ last'.dret < 0
         \/ ~\E r \in inv : r.item = last'.item)
       => (~last'.ok /\ inv' = inv)]_vars

\* the rows of a ledger for one item, warehouse and date
KeyRows(rows, item, wh, d) ==
  {r \in rows : r.item = item /\ r.wh = wh /\ r.date = d}

RECURSIVE SumOf(_, _)
\* the sum of one counter over a set of rows
SumOf(S, f) ==
  IF S = {} THEN 0
  ELSE LET x == CHOOSE y \in S : TRUE IN x[f] + SumOf(S \ {x}, f)

\* C20: a successful warehouse transfer of q on date d appends exactly one
\* movement record, with both item ids, both warehouses and q; the source
\* row it wrote is the row of (source item, source warehouse, d), whose
\* stock_out grows by exactly q, and the supplied quantity of (destination
\* item, destination warehouse, d) grows by exactly q.
C20_TransferMovesExactlyQ ==
  [][(last'.op = "Transfer" /\ last'.ok)
       => /\ Len(movements') = Len(movements) + 1
          /\ SubSeq(movements', 1, Len(movements)) = movements
          /\ LET m == movements'[Len(movements')]
                 d == last'.date
                 q == last'.q
             IN  /\ m.kind = "Transfer" /\ m.q = q /\ m.src # m.dst
                 /\ \E w \in KeyRows(inv', m.item, m.src, d) : w.id = last'.row
                 /\ SumOf(KeyRows(inv', m.item, m.src, d), "out")
                      = SumOf(KeyRows(inv, m.item, m.src, d), "out") + q
                 /\ SumOf(KeyRows(inv', m.destItem, m.dst, d), "sup")
                      = SumOf(KeyRows(inv, m.destItem, m.dst, d), "sup") + q]_vars

\* a second successful transfer into a destination row that already had a
\* supplied quantity
C20_Witness ==
  /\ last.op = "Transfer" /\ last.ok /\ Len(movements) = 2
  /\ LET m == movements[2]
     IN  \E w \in KeyRows(inv, m.destItem, m.dst, last.date) : w.sup > m.q

\* the destination item id a transfer is specified to resolve
ResolvedDestination(rows, srcItem, srcName, nameTo) ==
  IF nameTo = "" \/ nameTo = srcName THEN {srcItem}
  ELSE IF \E r \in rows : r.name = nameTo
       THEN {r.item : r \in {x \in rows : x.name = nameTo}}
       ELSE {(CHOOSE r \in MaxItem(rows) : TRUE).item + 1}

\* the request named the source item as the ledger names it
NamesSourceItem(o) ==
  \A r \in inv : r.item = o.item => r.name = o.name

C22_SameWarehouseRejected ==
  [][(last'.op = "Transfer" /\ last'.src = last'.dst)
       => /\ ~last'.ok
          /\ inv' = inv /\ nextId' = nextId /\ movements' = movements]_vars

\* a valid quantity of an item in stock was asked to move within one
\* warehouse, on a ledger with rows
C22_Witness ==
  /\ last.op = "Transfer" /\ last.src = last.dst /\ last.err = "same_warehouse"
  /\ \E r \in inv : r.item = last.item /\ r.wh = last.src /\ r.open > 0
                      /\ Closing(r) >= last.q

\* the stock_out of the row of rows with the given id, 0 when there is none
OutOfRow(rows, id) ==
  IF \E r \in rows : r.id = id THEN (CHOOSE r \in rows : r.id = id).out ELSE 0

\* C23: a successful issue or write-off of q changes one ledger row only,
\* the source row, whose stock_out grows by q while its other counters
\* stay, and appends one movement record, which has no destination
\* warehouse.
C23_IssueHasNoDestinationLeg ==
  [][(last'.op \in {"Issue", "WriteOff"} /\ last'.ok)
       => /\ Len(movements') = Len(movements) + 1
          /\ SubSeq(movements', 1, Len(movements)) = movements
          /\ movements'[Len(movements')].dst = ""
          /\ movements'[Len(movements')].q = last'.q
          /\ \E w \in inv' :
               /\ w.id = last'.row /\ w.date = last'.date
               /\ w.wh = movements'[Len(movements')].src
               /\ w.item = movements'[Len(movements')].item
               /\ w.out = OutOfRow(inv, w.id) + last'.q
               /\ \A r \in inv : r.id = w.id =>
                     r.open = w.open /\ r.sup = w.sup /\ r.ret = w.ret
               /\ inv' \ {w} = {r \in inv : r.id # w.id}]_vars

\* a second successful issue or write-off on a row that already had a
\* stock_out
C23_Witness ==
  /\ last.op \in {"Issue", "WriteOff"} /\ last.ok /\ Len(movements) = 2
  /\ \E w \in inv : w.id = last.row /\ w.out > last.q

\* C24: a write-off whose reason is shorter than the minimum length is
\* rejected and changes neither the ledger nor the movement log, and the
\* movement record of a successful write-off has as its note the write-off
\* marker followed by the reason.
C24_WriteOffReason ==
  [][(last'.op = "WriteOff")
       => /\ Len(last'.reason) < MinNoteLen
               => /\ ~last'.ok
                  /\ inv' = inv /\ nextId' = nextId /\ movements' = movements
          /\ last'.ok
               => /\ Len(movements') = Len(movements) + 1
                  /\ movements'[Len(movements')].note = WriteOffMarker \o last'.reason
                  /\ Len(last'.reason) >= MinNoteLen]_vars

\* a write-off with a reason of 6 characters succeeded
C24_Witness ==
  /\ last.op = "WriteOff" /\ last.ok /\ Len(last.reason) = 6
  /\ movements[Len(movements)].kind = "WriteOff"

\* C25: a manual adjustment by a caller who is not the owner, whose
\* request carries no access code to compare with the stored one, fails and
\* creates or changes no ledger row.
C25_ManualAdjustNeedsOwnerOrCode ==
  [][(last'.op = "ManualAdjust" /\ last'.role # "md")
       => (~last'.ok /\ inv' = inv)]_vars

\* the value a manual adjustment that names a counter as o leaves in it,
\* old being the value it had
SetTo(o, old) ==
  IF o = <<>> THEN old ELSE o[1]

\* C26: an accepted manual adjustment leaves in the row it wrote each named
\* counter at the given value and each unnamed counter and the open balance
\* as they were; a row it created has the unnamed counters at 0 and, as open
\* balance, the closing balance of the most recent earlier row of the same
\* item and warehouse, 0 when there is none.
C26_ManualAdjustSets ==
  [][(last'.op = "ManualAdjust" /\ last'.ok)
       => \E w \in inv' :
            /\ w.id = last'.row /\ w.item = last'.item /\ w.date = last'.date
            /\ IF \E r \in inv : r.id = w.id
               THEN LET r == CHOOSE x \in inv : x.id = w.id
                    IN  /\ w.open = r.open
                        /\ w.sup = SetTo(last'.sup, r.sup)
                        /\ w.out = SetTo(last'.out, r.out)
                        /\ w.ret = SetTo(last'.ret, r.ret)
               ELSE /\ w.open \in PreviousClosingOfKey(inv, w.item, w.wh, w.date)
                    /\ w.sup = SetTo(last'.sup, 0)
                    /\ w.out = SetTo(last'.out, 0)
                    /\ w.ret = SetTo(last'.ret, 0)]_vars

\* the ledgers an upsert of a return of q for the item on date d can leave
UpsertOfReturn(rows, nid, item, d, q) ==
  {_upsert_inventory_daily(rows, nid, itemRow, d, 0, 0, q, existing, prev) :
     itemRow \in _resolve_item(rows, item),
     existing \in Pick(_get_existing_same_day(rows, item, d)),
     prev \in _previous_closing_for(rows, item, d)}

\* C27: an accepted return of q leaves the ledger as an upsert of the
\* deltas (0, 0, q) for the item and date would.
C27_ReturnIsUpsert ==
  [][(last'.op = "ReturnItem" /\ last'.ok)
       => inv' \in UpsertOfReturn(inv, nextId, last'.item, last'.date, last'.q)]_vars

\* C28: a return whose access code differs from the stored code, or for a
\* caller with no stored code, fails and changes no ledger row.
C28_ReturnNeedsStoredCode ==
  [][(last'.op = "ReturnItem" /\ (last'.code # last'.stored \/ last'.stored = ""))
       => (~last'.ok /\ inv' = inv /\ nextId' = nextId)]_vars

\* the owner's return for an item on the ledger was refused for its code
C28_Witness ==
  /\ last.op = "ReturnItem" /\ last.err = "bad_code" /\ last.role = "md"
  /\ last.code = "c2" /\ last.stored = "c1"
  /\ \E r \in inv : r.item = last.item

CloseOps == {"CloseDay", "MoveToHistory"}

\* C29: a daily close or a move to history asked by a caller who is not the
\* owner for a date that is not the current day is rejected and changes
\* neither the ledger nor the sale, purchase and history tables; the owner
\* is never rejected for the date.
C29_CloseDayDateRule ==
  [][(last'.op \in CloseOps)
       => /\ (last'.role # "md" /\ last'.date # today)
               => /\ ~last'.ok /\ last'.err = "forbidden_date"
                  /\ inv' = inv /\ nextId' = nextId
                  /\ salesLog' = salesLog /\ salesHist' = salesHist
                  /\ purchases' = purchases /\ purchHist' = purchHist
          /\ last'.role = "md" => last'.err # "forbidden_date"]_vars

\* an employee was refused the close of a date, not the current day, that
\* has a sale to fold
C29_Witness ==
  /\ last.op \in CloseOps /\ last.role = "employee" /\ last.date # today
  /\ last.err = "forbidden_date"
  /\ \E x \in salesLog : x.date = last.date

\* C30: the movement log is append-only: every step keeps the records
\* already written, in place and unchanged, and can only add records after
\* them.
C30_MovementLogAppendOnly ==
  [][/\ Len(movements') >= Len(movements)
     /\ SubSeq(movements', 1, Len(movements)) = movements]_vars

\* a movement was logged after an earlier one, and a later operation that is
\* not a movement has run since
C30_Witness ==
  /\ Len(movements) = MaxMoves
  /\ movements[1] # movements[2]
  /\ last.op \notin MovementOps /\ last.ok

\* C31: a balance row, once created, stays in the ledger unless the
\* deletion of its whole item removes it: a step that removes a row is the
\* item deletion, and it leaves no row of that item.
C31_RowsLeaveOnlyWithItem ==
  [][\A r \in inv :
       (~\E x \in inv' : x.id = r.id)
         => /\ last'.op = "DeleteItem"
            /\ ~\E x \in inv' : x.item = r.item]_vars

\* C32: in every reachable state the open balance and the supplied, out and
\* return counters of every balance row are at least 0, whatever values the
\* callers pass.
C32_CountersNonNegative ==
  \A r \in inv : r.open >= 0 /\ r.sup >= 0 /\ r.out >= 0 /\ r.ret >= 0

\* C33: when the stock deduction of a proforma conversion fails, the
\* conversion does not complete successfully with the sale row recorded and
\* the ledger unchanged.
C33_FailedDeductionSurfaces ==
  [][(last'.op = "Proforma" /\ last'.err = "failed")
       => ~(last'.ok /\ salesLog' # salesLog /\ inv' = inv)]_vars

\* the outbound (after a sale) or inbound (after a restock) counter of a row
Accounted(op, r) ==
  IF op = "Sale" THEN r.out ELSE r.sup

\* C34: a sale whose quantity was added to stock_out when it was created, or
\* a restock whose quantity was added to supplied_quantity, is not added
\* again by the daily close of its date: the close that follows it leaves
\* that counter of every row as it was and creates no row that counts it.
C34_SourceRowCountedOnce ==
  [][(/\ last.op \in {"Sale", "Restock"} /\ last.ok
      /\ last'.op = "CloseDay" /\ last'.date = last.date)
     => \A x \in inv' :
          IF \E r \in inv : r.id = x.id
          THEN \A r \in inv : r.id = x.id
                 => Accounted(last.op, x) = Accounted(last.op, r)
          ELSE Accounted(last.op, x) = 0]_vars

\* C35: the adjustment made when a sale or a restock is created changes only
\* the balance row of the affected day: there is one date such that every
\* row of another date is left as it was.
C35_AdjustmentTouchesOneDay ==
  [][(last'.op \in {"Sale", "Restock"} /\ last'.ok)
       => \E d \in Dates : \A r \in inv : r.date # d => r \in inv']_vars

\* C36: an item id minted by a renaming transfer is in use by no other
\* item, also when renaming transfers run concurrently: two transfers that
\* have resolved their destination item ids for two different item names
\* hold two different ids.
C36_MintedIdsAreDistinct ==
  \A p1 \in Procs, p2 \in Procs :
    (/\ procs[p1].dest # 0 /\ procs[p2].dest # 0
     /\ procs[p1].nameTo # procs[p2].nameTo)
      => procs[p1].dest # procs[p2].dest

\* C37: a proforma is converted to sales at most once: a conversion that
\* succeeds finds no sale row of that proforma, neither in the sales log nor
\* in the sales history.
C37_ProformaConvertedOnce ==
  [][(last'.op = "Proforma" /\ last'.ok)
       => ~\E x \in salesLog \cup salesHist : x.pf = last'.pf]_vars

\* C38: a sale batch that the stock validation accepts never deducts more
\* of an item than was available: the summed quantity of its lines for the
\* item is at most a stock the validation could read.
C38_BatchWithinAvailable ==
  [][(last'.op = "SaleBatch" /\ last'.ok)
       => \E a \in AvailableStock(inv, last'.item, today) : last'.q <= a]_vars

\* C39: a daily close that fails leaves no partial mutation: if it changed
\* the ledger, no sale or purchase row of its date is left unconsumed in the
\* mutable tables for a retry to fold again.
C39_FailedCloseLeavesNothing ==
  [][(last'.op = "CloseDay" /\ ~last'.ok /\ inv' # inv)
       => /\ ~\E x \in salesLog' : x.date = last'.date
          /\ ~\E x \in purchases' : x.date = last'.date]_vars

====
